---- MODULE Spec2Model ----
(***************************************************************************)
(* Model of the liftbridge command line client (src/cli/cli.go).           *)
(*                                                                         *)
(* One CLI process runs at a time against a broker that outlives it.  The  *)
(* broker is an external collaborator: the model keeps the part of its     *)
(* state the commands can observe through the handlers below (the set of   *)
(* streams and each stream's message log) and draws every broker answer    *)
(* from the answers the client API can give.  A command handler is a       *)
(* sequence of steps (connect, ensure, the command's own RPC, return); the *)
(* subscription callback runs on the client library's delivery worker.     *)
(***************************************************************************)
EXTENDS Integers, Sequences, FiniteSets, TLC

\* ------------------------------------------------------------------ bounds
MaxLog == 2          \* messages kept per stream
MaxDeliver == 2      \* callback invocations per subscription session
MaxPartitions == 2   \* values given to --partitions

\* --------------------------------------------------------------- constants
activityStreamName == "__activity"
StreamNames == {"foo", "baz"}
SubjectNames == {"", "subj"}
MessageValues == {<<"bar">>}
AckPolicyTokens == {"leader", "all", "none", "Leader", "quorum"}

\* A platform integer (64 bits, two's complement) is written in limbs: its
\* value is hi * 2^32 + mid * 2^16 + low, with mid and low in 0..65535.
Int64(hi, mid, low) == [hi |-> hi, mid |-> mid, low |-> low]

\* the values --partitions is given: 0, -1, 2^31 - 1, 2^31, 2^32 + 1
IntValues ==
  {Int64(0, 0, 0), Int64(-1, 65535, 65535), Int64(0, 32767, 65535),
   Int64(0, 32768, 0), Int64(1, 0, 1)}

PartitionLists == UNION { [1..n -> IntValues] : n \in 0..MaxPartitions }

\* errors are chains of strings, outermost wrap first; nil is the empty chain
nil == << >>
ErrStreamExists == <<"ErrStreamExists">>
ErrOther == <<"ErrOther">>
ErrConn == <<"ErrConn">>
ErrDeadline == <<"context deadline exceeded">>
BrokerErrors == {ErrStreamExists, ErrOther}

\* fmt.Errorf("<prefix>: %w", err)
Wrap(prefix, err) == prefix \o err

\* --------------------------------------------------------------- variables
VARIABLES
  streams,    \* broker: names of the streams that exist
  log,        \* broker: stream name -> sequence of message values
  cmd,        \* the invocation being run (command name and flag values)
  pc,         \* position of the handler
  session,    \* the client returned by lift.Connect: "none", "open", "closed"
  calls,      \* broker operations invoked by this invocation and their answers
  result,     \* the error the handler returned (meaningful when pc = "done")
  setupCtx,   \* the handler's context.WithTimeout: "none", "active",
              \* "expired", "cancelled"
  subCtx,     \* the context the subscription was opened under
  worker,     \* delivery worker: idle, or blocked sending on errC
  delivered,  \* number of callback invocations in this session
  out,        \* what the message handler printed in this session
  lastEvent,  \* the most recent callback invocation and what it did
  partitionsArg  \* the partitions option of the last operation that has one

vars == <<streams, log, cmd, pc, session, calls, result, setupCtx, subCtx,
          worker, delivered, out, lastEvent, partitionsArg>>

\* ---------------------------------------------------------------- commands
CommandNames ==
  {"create", "subscribe", "subscribe-activity-stream", "publish",
   "set-readonly", "pause", "delete", "metadata", "partition-metadata",
   "set-cursor", "fetch-cursor"}

\* the commands registered with createStreamFlag
CreateStreamFlagCommands ==
  {"subscribe", "publish", "set-readonly", "pause", "delete",
   "partition-metadata", "set-cursor"}

\* the commands registered with subjectFlag
SubjectFlagCommands == CreateStreamFlagCommands \cup {"create"}

\* the commands registered with streamFlag
StreamFlagCommands == SubjectFlagCommands \cup {"fetch-cursor"}

\* the commands registered with partitionsFlag
PartitionsFlagCommands == {"set-readonly", "pause"}

SubscriptionCommands == {"subscribe", "subscribe-activity-stream"}

defaultStreamName == "foo"
defaultMessageValue == <<"bar">>
defaultAckPolicy == "leader"

\* a parsed command line: a flag a command does not register keeps its
\* default (a flag that is not registered reads as the zero value)
Invocations ==
  { c \in [name : CommandNames, stream : StreamNames, subject : SubjectNames,
           createStream : BOOLEAN, ackPolicy : AckPolicyTokens,
           message : MessageValues, partitions : PartitionLists] :
      /\ c.name \notin StreamFlagCommands => c.stream = defaultStreamName
      /\ c.name \notin SubjectFlagCommands => c.subject = ""
      /\ c.name \notin CreateStreamFlagCommands => c.createStream = FALSE
      /\ c.name # "publish" => /\ c.ackPolicy = defaultAckPolicy
                               /\ c.message = defaultMessageValue
      /\ c.name \notin PartitionsFlagCommands => c.partitions = << >> }

NoCmd == [name |-> "none", stream |-> defaultStreamName, subject |-> "",
          createStream |-> FALSE, ackPolicy |-> defaultAckPolicy,
          message |-> defaultMessageValue, partitions |-> << >>]

\* the prefix each handler puts on a connection failure
ConnectPrefix(name) ==
  CASE name = "create" -> <<"creation failed">>
    [] name \in SubscriptionCommands -> <<"stream subscription failed">>
    [] name = "publish" -> <<"publication failed">>
    [] name = "set-readonly" -> <<"set readonly failed">>
    [] name = "pause" -> <<"pause failed">>
    [] name = "delete" -> <<"delete failed">>
    [] name = "metadata" -> <<"metadata fetching failed">>
    [] name = "partition-metadata" -> <<"partition metadata fetching failed">>
    [] name = "set-cursor" -> <<"setting cursor failed">>
    [] name = "fetch-cursor" -> <<"fetching cursor failed">>

\* the stream a handler works on: subscribe-activity-stream passes the
\* activity stream's name, every other handler reads streamFlag
StreamOf(c) ==
  IF c.name = "subscribe-activity-stream" THEN activityStreamName ELSE c.stream

\* a handler that runs the ensure step whatever the flag says
CreateStreamRequested_always(c) == TRUE

\* the createStream argument: subscribe-activity-stream passes false
CreateStreamRequested(c) ==
  IF c.name = "subscribe-activity-stream" THEN FALSE ELSE c.createStream

\* ------------------------------------------------------------ pure helpers
\* connectToEndpoint, given what lift.Connect returned
connectToEndpoint(e) ==
  IF e # nil THEN Wrap(<<"connection failed with address">>, e) ELSE nil

\* the subject ensureStreamCreated and create hand to CreateStream
SubjectFor(streamName, subjectName) ==
  IF subjectName = "" THEN streamName ELSE subjectName

\* ensureStreamCreated without the ErrStreamExists exemption
ensureStreamCreated_noExempt(streamName, err) ==
  IF err # nil
    THEN Wrap(<<"stream creation failed for stream", streamName>>, err)
    ELSE nil

\* ensureStreamCreated, given what client.CreateStream returned
ensureStreamCreated(streamName, err) ==
  IF err # nil /\ err # ErrStreamExists
    THEN Wrap(<<"stream creation failed for stream", streamName>>, err)
    ELSE nil

\* ackPolicyStringToAckPolicy with an unknown token defaulted to leader
ackPolicyStringToAckPolicy_defaulting(ackPolicy) ==
  CASE ackPolicy = "all" -> [opt |-> "AckPolicyAll", err |-> nil]
    [] ackPolicy = "none" -> [opt |-> "AckPolicyNone", err |-> nil]
    [] OTHER -> [opt |-> "AckPolicyLeader", err |-> nil]

\* ackPolicyStringToAckPolicy: the message option and the error
ackPolicyStringToAckPolicy(ackPolicy) ==
  CASE ackPolicy = "leader" -> [opt |-> "AckPolicyLeader", err |-> nil]
    [] ackPolicy = "all" -> [opt |-> "AckPolicyAll", err |-> nil]
    [] ackPolicy = "none" -> [opt |-> "AckPolicyNone", err |-> nil]
    [] OTHER -> [opt |-> "nil", err |-> <<"invalid ack policy", ackPolicy>>]

\* ------------------------------------------------------------------ broker
\* what CreateStream answers: the stream set decides, or the call fails
CreateStreamAnswers(name) ==
  IF name \in streams THEN {ErrStreamExists, ErrOther} ELSE {nil, ErrOther}

\* what an operation on an existing stream answers
StreamOpAnswers(name) ==
  (IF name \in streams THEN {nil} ELSE {}) \cup BrokerErrors

\* what Publish answers: an ack while the log has room, or an error
PublishAnswers(name) ==
  (IF name \in streams /\ Len(log[name]) < MaxLog THEN {nil} ELSE {})
    \cup BrokerErrors

\* what an operation called under the handler's timeout context answers:
\* once the deadline has passed the call fails with the context's error
UnderTimeout(answers) ==
  IF setupCtx = "expired" THEN {ErrDeadline} ELSE answers

\* the deferred cancel of the timeout context, run when the handler returns
Cancel(ctx) == IF ctx = "active" THEN "cancelled" ELSE ctx

Call(op, stream, subject, err) ==
  [op |-> op, stream |-> stream, subject |-> subject, err |-> err]

Ops(cs) == { cs[i].op : i \in 1..Len(cs) }

NoEvent == [kind |-> "none", err |-> nil, value |-> << >>,
            handlerCalled |-> FALSE, decodeFailed |-> FALSE]

IdleWorker == [pc |-> "idle", err |-> nil]

Init ==
  /\ streams = {}
  /\ log = [s \in StreamNames |-> << >>]
  /\ cmd = NoCmd
  /\ pc = "idle"
  /\ session = "none"
  /\ calls = << >>
  /\ result = nil
  /\ setupCtx = "none"
  /\ subCtx = "none"
  /\ worker = IdleWorker
  /\ delivered = 0
  /\ out = << >>
  /\ lastEvent = NoEvent
  /\ partitionsArg = << >>

\* ------------------------------------------------------------- the handlers
\* Run: the app dispatches the parsed command line to its handler
Run ==
  /\ pc = "idle"
  /\ \E c \in Invocations : cmd' = c
  /\ pc' = "connect"
  /\ UNCHANGED <<streams, log, session, calls, result, setupCtx, subCtx,
                 worker, delivered, out, lastEvent,
                 partitionsArg>>

\* where a handler goes once it holds a client
AfterConnect(c) == IF CreateStreamRequested(c) THEN "ensure" ELSE "rpc"

\* the first lines of every handler: connectToEndpoint and its error check,
\* then context.WithTimeout(context.Background(), timeoutDuration)
Connect ==
  /\ pc = "connect"
  /\ \E e \in {nil, ErrConn} :
       LET err == connectToEndpoint(e) IN
       /\ calls' = Append(calls, Call("Connect", "", "", e))
       /\ IF err # nil
            THEN /\ result' = Wrap(ConnectPrefix(cmd.name), err)
                 /\ pc' = "done"
                 /\ UNCHANGED <<session, setupCtx>>
            ELSE /\ session' = "open"
                 /\ setupCtx' = "active"
                 /\ pc' = AfterConnect(cmd)
                 /\ UNCHANGED result
  /\ UNCHANGED <<streams, log, cmd, subCtx, worker, delivered, out, lastEvent,
                 partitionsArg>>

\* a handler that drops the error of the ensure step
AfterEnsure_ignoreErr(err) == "rpc"

\* where a handler goes after the ensure step returned err
AfterEnsure(err) == IF err # nil THEN "done" ELSE "rpc"

\* `if createStream { if err := ensureStreamCreated(...); err != nil { return err } }`
Ensure ==
  /\ pc = "ensure"
  /\ \E e \in UnderTimeout(CreateStreamAnswers(StreamOf(cmd))) :
       LET err == ensureStreamCreated(StreamOf(cmd), e) IN
       /\ calls' = Append(calls, Call("CreateStream", StreamOf(cmd),
                                      SubjectFor(StreamOf(cmd), cmd.subject), e))
       /\ streams' = IF e = nil THEN streams \cup {StreamOf(cmd)} ELSE streams
       /\ pc' = AfterEnsure(err)
       /\ result' = IF err # nil THEN err ELSE result
       /\ setupCtx' = IF AfterEnsure(err) = "done" THEN Cancel(setupCtx)
                      ELSE setupCtx
  /\ UNCHANGED <<log, cmd, session, subCtx, worker, delivered, out, lastEvent,
                 partitionsArg>>

\* what create returns, given what client.CreateStream returned
createResult(streamName, err) ==
  IF err # nil
    THEN Wrap(<<"stream creation failed for stream", streamName>>, err)
    ELSE nil

create ==
  /\ pc = "rpc" /\ cmd.name = "create"
  /\ \E e \in UnderTimeout(CreateStreamAnswers(cmd.stream)) :
       /\ calls' = Append(calls, Call("CreateStream", cmd.stream,
                                      SubjectFor(cmd.stream, cmd.subject), e))
       /\ streams' = IF e = nil THEN streams \cup {cmd.stream} ELSE streams
       /\ result' = createResult(cmd.stream, e)
  /\ pc' = "done"
  /\ setupCtx' = Cancel(setupCtx)
  /\ UNCHANGED <<log, cmd, session, subCtx, worker, delivered, out, lastEvent,
                 partitionsArg>>

\* what publish returns, given what client.Publish returned
publishResult(err) ==
  IF err # nil /\ err # ErrStreamExists
    THEN Wrap(<<"publication failed">>, err)
    ELSE nil

publish ==
  /\ pc = "rpc" /\ cmd.name = "publish"
  /\ LET r == ackPolicyStringToAckPolicy(cmd.ackPolicy) IN
     IF r.err # nil
       THEN /\ result' = Wrap(<<"publication failed">>, r.err)
            /\ UNCHANGED <<calls, log>>
       ELSE \E e \in UnderTimeout(PublishAnswers(cmd.stream)) :
              /\ calls' = Append(calls, Call("Publish", cmd.stream, r.opt, e))
              /\ log' = IF e = nil
                          THEN [log EXCEPT ![cmd.stream] = Append(@, cmd.message)]
                          ELSE log
              /\ result' = publishResult(e)
  /\ pc' = "done"
  /\ setupCtx' = Cancel(setupCtx)
  /\ UNCHANGED <<streams, cmd, session, subCtx, worker, delivered, out, lastEvent,
                 partitionsArg>>

\* a handler whose own operation is one RPC that leaves the modelled broker
\* state alone: the error is wrapped with the handler's prefix
SimpleRpc(name, op, answers, prefix) ==
  /\ pc = "rpc" /\ cmd.name = name
  /\ \E e \in UnderTimeout(answers) :
       /\ calls' = Append(calls, Call(op, StreamOf(cmd), "", e))
       /\ result' = IF e # nil THEN Wrap(prefix, e) ELSE nil
  /\ pc' = "done"
  /\ setupCtx' = Cancel(setupCtx)
  /\ UNCHANGED <<streams, log, cmd, session, subCtx, worker, delivered, out,
                 lastEvent>>

\* int32(value) of a platform integer: the low 32 bits, read as signed
Int32Of(v) ==
  IF v.mid >= 32768 THEN (v.mid - 65536) * 65536 + v.low
  ELSE v.mid * 65536 + v.low

\* intToInt32Slice with the result allocated at full length before appending
intToInt32Slice_prefilled(slice) ==
  [i \in 1..Len(slice) |-> 0] \o [i \in 1..Len(slice) |-> Int32Of(slice[i])]

intToInt32Slice(slice) == [i \in 1..Len(slice) |-> Int32Of(slice[i])]

setReadonly ==
  /\ SimpleRpc("set-readonly", "SetStreamReadonly",
               StreamOpAnswers(cmd.stream), <<"set readonly failed">>)
  /\ partitionsArg' = intToInt32Slice(cmd.partitions)

pause ==
  /\ SimpleRpc("pause", "PauseStream", StreamOpAnswers(cmd.stream),
               <<"pause failed">>)
  /\ partitionsArg' = intToInt32Slice(cmd.partitions)

delete ==
  /\ pc = "rpc" /\ cmd.name = "delete"
  /\ \E e \in UnderTimeout(StreamOpAnswers(cmd.stream)) :
       /\ calls' = Append(calls, Call("DeleteStream", cmd.stream, "", e))
       /\ streams' = IF e = nil THEN streams \ {cmd.stream} ELSE streams
       /\ log' = IF e = nil THEN [log EXCEPT ![cmd.stream] = << >>] ELSE log
       /\ result' = IF e # nil THEN Wrap(<<"delete failed">>, e) ELSE nil
  /\ pc' = "done"
  /\ setupCtx' = Cancel(setupCtx)
  /\ UNCHANGED <<cmd, session, subCtx, worker, delivered, out, lastEvent,
                 partitionsArg>>

metadata ==
  /\ SimpleRpc("metadata", "FetchMetadata", {nil} \cup BrokerErrors,
               <<"metadata fetching failed">>)
  /\ UNCHANGED partitionsArg

partitionMetadata ==
  /\ SimpleRpc("partition-metadata", "FetchPartitionMetadata",
               StreamOpAnswers(cmd.stream), <<"metadata fetching failed">>)
  /\ UNCHANGED partitionsArg

setCursor ==
  /\ SimpleRpc("set-cursor", "SetCursor", StreamOpAnswers(cmd.stream),
               <<"setting cursor failed">>)
  /\ UNCHANGED partitionsArg

fetchCursor ==
  /\ SimpleRpc("fetch-cursor", "FetchCursor", StreamOpAnswers(cmd.stream),
               <<"stream creation failed for stream", cmd.stream>>)
  /\ UNCHANGED partitionsArg

\* ------------------------------------------------- activity stream payloads
\* A payload is a sequence of wire fields.  An "op" field carries the
\* discriminant, a "...Op" field carries that operation's sub-message, and a
\* "garbage" field is bytes the decoder cannot parse.
ActivityOps ==
  {"CREATE_STREAM", "DELETE_STREAM", "PAUSE_STREAM", "RESUME_STREAM",
   "SET_STREAM_READONLY"}

\* an unset sub-message field of the decoded event (a nil pointer)
NilOp == [isNil |-> TRUE, Stream |-> "", Partitions |-> << >>,
          ResumeAll |-> FALSE]

SubOps ==
  {[isNil |-> FALSE, Stream |-> "foo", Partitions |-> <<0, 1>>,
    ResumeAll |-> TRUE],
   [isNil |-> FALSE, Stream |-> "baz", Partitions |-> << >>,
    ResumeAll |-> FALSE]}

SubOpTags == {"createStreamOp", "deleteStreamOp", "pauseStreamOp",
              "resumeStreamOp"}

OpField(o) == [tag |-> "op", op |-> o, sub |-> NilOp]
SubField(t, m) == [tag |-> t, op |-> "", sub |-> m]
Garbage == [tag |-> "garbage", op |-> "", sub |-> NilOp]

ActivityPayloads ==
  { <<OpField(o)>> : o \in ActivityOps }
    \cup { <<OpField(x[1]), SubField(x[2], x[3])>> :
             x \in ActivityOps \X SubOpTags \X SubOps }
    \cup { <<Garbage>> }
    \cup { <<OpField(o), Garbage>> : o \in {"CREATE_STREAM"} }

ZeroEvent(o) ==
  [Op |-> o, CreateStreamOp |-> NilOp, DeleteStreamOp |-> NilOp,
   PauseStreamOp |-> NilOp, ResumeStreamOp |-> NilOp]

RECURSIVE UnmarshalFrom(_, _, _)
UnmarshalFrom(payload, i, se) ==
  IF i > Len(payload) THEN [err |-> nil, se |-> se]
  ELSE LET f == payload[i] IN
    CASE f.tag = "op" -> UnmarshalFrom(payload, i + 1, [se EXCEPT !.Op = f.op])
      [] f.tag = "createStreamOp" ->
           UnmarshalFrom(payload, i + 1, [se EXCEPT !.CreateStreamOp = f.sub])
      [] f.tag = "deleteStreamOp" ->
           UnmarshalFrom(payload, i + 1, [se EXCEPT !.DeleteStreamOp = f.sub])
      [] f.tag = "pauseStreamOp" ->
           UnmarshalFrom(payload, i + 1, [se EXCEPT !.PauseStreamOp = f.sub])
      [] f.tag = "resumeStreamOp" ->
           UnmarshalFrom(payload, i + 1, [se EXCEPT !.ResumeStreamOp = f.sub])
      [] OTHER -> [err |-> <<"proto: illegal wireType">>, se |-> se]

\* se.Unmarshal(message.Value())
Unmarshal(payload) == UnmarshalFrom(payload, 1, ZeroEvent("CREATE_STREAM"))

\* fmt's %v of a list of integers: "[0 1]"
RECURSIVE FmtIntsFrom(_, _)
FmtIntsFrom(p, i) ==
  IF i > Len(p) THEN ""
  ELSE (IF i > 1 THEN " " ELSE "") \o ToString(p[i]) \o FmtIntsFrom(p, i + 1)

FmtInts(p) == "[" \o FmtIntsFrom(p, 1) \o "]"

\* fmt's %v of a boolean
FmtBool(b) == IF b THEN "true" ELSE "false"

\* reading op.Stream and the other fields of an unset sub-message
\* dereferences a nil pointer: the handler panics
Deref(op, str) == IF op.isNil THEN [panic |-> TRUE, str |-> << >>]
                  ELSE [panic |-> FALSE, str |-> str]

\* the switch on se.Op: activityStr, as the pieces fmt.Sprintf joins
render(se) ==
  CASE se.Op = "CREATE_STREAM" ->
         LET op == se.CreateStreamOp IN
         Deref(op, <<"stream: ", op.Stream, ", partitions: ", FmtInts(op.Partitions)>>)
    [] se.Op = "DELETE_STREAM" ->
         LET op == se.DeleteStreamOp IN
         Deref(op, <<"stream: ", op.Stream>>)
    [] se.Op = "PAUSE_STREAM" ->
         LET op == se.PauseStreamOp IN
         Deref(op, <<"stream: ", op.Stream, ", partitions: ", FmtInts(op.Partitions),
                     ", resumeAll: ", FmtBool(op.ResumeAll)>>)
    [] se.Op = "RESUME_STREAM" ->
         LET op == se.ResumeStreamOp IN
         Deref(op, <<"stream: ", op.Stream, ", partitions: ", FmtInts(op.Partitions)>>)
    [] OTHER -> [panic |-> FALSE, str |-> <<"unknown activity">>]

\* the message handler subscribe passes: one printed line
subscribeHandler(value, offset) ==
  [panic |-> FALSE, decodeFailed |-> FALSE,
   line |-> [kind |-> "message", op |-> "", text |-> value,
             offset |-> offset]]

InvalidLine(offset) ==
  [kind |-> "invalid", op |-> "", text |-> << >>, offset |-> offset]

\* an activity handler that treats a decode error as fatal
activityHandler_fatalDecode(payload, offset) ==
  LET d == Unmarshal(payload) IN
  IF d.err # nil
    THEN [panic |-> TRUE, decodeFailed |-> TRUE, line |-> InvalidLine(offset)]
    ELSE LET r == render(d.se) IN
         [panic |-> r.panic, decodeFailed |-> FALSE,
          line |-> [kind |-> "activity", op |-> d.se.Op, text |-> r.str,
                    offset |-> offset]]

\* the message handler subscribeActivityStream passes
activityHandler(payload, offset) ==
  LET d == Unmarshal(payload) IN
  IF d.err # nil
    THEN [panic |-> FALSE, decodeFailed |-> TRUE, line |-> InvalidLine(offset)]
    ELSE LET r == render(d.se) IN
         [panic |-> r.panic, decodeFailed |-> FALSE,
          line |-> [kind |-> "activity", op |-> d.se.Op, text |-> r.str,
                    offset |-> offset]]

\* ------------------------------------------------------ subscribeToStream
\* the errors the subscription can deliver to the callback
DeliveryErrors == {ErrOther, <<"ErrReadonlyPartition">>}

\* what Subscribe answers: the activity stream is the broker's own
SubscribeAnswers(name) ==
  (IF name \in streams \cup {activityStreamName} THEN {nil} ELSE {})
    \cup BrokerErrors

\* a subscription left at the client library's default start position
StartOption_newOnly == "StartAtNewOnly"

\* the subscription option subscribeToStream passes to Subscribe
StartOption == "StartAtEarliestReceived"

\* the offset of the first message the broker delivers for a start option:
\* the earliest retained one, or only what is published from now on
StartOffset(opt, name) ==
  IF opt = "StartAtEarliestReceived" THEN 0 ELSE Len(log[name])

\* a subscription context derived from the handler's timeout context
SubParent_setup == "setup"

\* the parent of the context the subscription is opened under:
\* context.WithCancel(context.Background())
SubParent == "background"

\* the error of the subscription's context that comes from its parent: a
\* context derived from the timeout context ends when the deadline passes
SubCtxErr ==
  IF SubParent = "setup" /\ setupCtx = "expired" THEN ErrDeadline ELSE nil

\* what Subscribe answers under the subscription's context
UnderSubCtx(answers) == IF SubCtxErr # nil THEN {SubCtxErr} ELSE answers

\* client.Subscribe and its error check; on success the handler goes on to
\* `return <-errC`
Subscribe ==
  /\ pc = "rpc" /\ cmd.name \in SubscriptionCommands
  /\ \E e \in UnderSubCtx(SubscribeAnswers(StreamOf(cmd))) :
       /\ calls' = Append(calls, Call("Subscribe", StreamOf(cmd),
                                      StartOption, e))
       /\ IF e # nil
            THEN /\ result' = Wrap(<<"stream subscription failed for stream",
                                     StreamOf(cmd)>>, e)
                 /\ pc' = "done"
                 /\ setupCtx' = Cancel(setupCtx)
                 /\ UNCHANGED subCtx
            ELSE /\ pc' = "recv"
                 /\ subCtx' = "active"
                 /\ UNCHANGED <<result, setupCtx>>
  /\ UNCHANGED <<streams, log, cmd, session, worker, delivered, out, lastEvent,
                 partitionsArg>>

\* the handler the command passed to subscribeToStream
handler(c, value, offset) ==
  IF c.name = "subscribe" THEN subscribeHandler(value, offset)
  ELSE activityHandler(value, offset)

\* the messages the subscription can deliver next: the stream's log from the
\* earliest offset on; the activity stream's content is the broker's
NextOffset ==
  IF cmd.name = "subscribe"
    THEN StartOffset(StartOption, cmd.stream) + Len(out)
    ELSE Len(out)

NextMessages ==
  IF cmd.name = "subscribe"
    THEN IF NextOffset < Len(log[cmd.stream])
           THEN {log[cmd.stream][NextOffset + 1]} ELSE {}
    ELSE ActivityPayloads

\* The delivery worker invokes the callback for as long as it has not
\* observed the cancellation of the subscription's context: the deferred
\* cancel of a returning subscribeToStream races with the next delivery.
WorkerDelivering ==
  /\ subCtx \in {"active", "cancelled"}
  /\ pc \in {"recv", "done"}
  /\ worker.pc = "idle"

\* the subscription callback, invoked with a message
CallbackMessage ==
  /\ WorkerDelivering
  /\ delivered < MaxDeliver
  /\ SubCtxErr = nil
  /\ \E m \in NextMessages :
       LET h == handler(cmd, m, NextOffset) IN
       /\ delivered' = delivered + 1
       /\ lastEvent' = [kind |-> "msg", err |-> nil, value |-> m,
                        handlerCalled |-> TRUE,
                        decodeFailed |-> h.decodeFailed]
       /\ IF h.panic
            THEN /\ pc' = "panic"
                 /\ UNCHANGED out
            ELSE /\ out' = Append(out, h.line)
                 /\ UNCHANGED pc
  /\ UNCHANGED <<streams, log, cmd, session, calls, result, setupCtx, subCtx,
                 worker,
                 partitionsArg>>

\* the subscription callback, invoked with an error: `errC <- err` blocks
\* the worker until subscribeToStream receives
CallbackError ==
  /\ WorkerDelivering
  /\ delivered < MaxDeliver
  /\ \E e \in UnderSubCtx(DeliveryErrors) :
       /\ worker' = [pc |-> "sending", err |-> e]
       /\ lastEvent' = [kind |-> "err", err |-> e, value |-> << >>,
                        handlerCalled |-> FALSE, decodeFailed |-> FALSE]
  /\ delivered' = delivered + 1
  /\ UNCHANGED <<streams, log, cmd, pc, session, calls, result, setupCtx,
                 subCtx, out,
                 partitionsArg>>

\* a receive that wraps the error before returning it
Receive_wrapping ==
  /\ pc = "recv" /\ worker.pc = "sending"
  /\ result' = Wrap(<<"stream subscription failed">>, worker.err)
  /\ worker' = IdleWorker
  /\ pc' = "done"
  /\ setupCtx' = Cancel(setupCtx)
  /\ subCtx' = "cancelled"
  /\ UNCHANGED <<streams, log, cmd, session, calls, delivered, out, lastEvent,
                 partitionsArg>>

\* a receive that gives up when nothing is pending
Receive_noWait ==
  /\ pc = "recv"
  /\ result' = worker.err
  /\ worker' = IdleWorker
  /\ pc' = "done"
  /\ setupCtx' = Cancel(setupCtx)
  /\ subCtx' = "cancelled"
  /\ UNCHANGED <<streams, log, cmd, session, calls, delivered, out, lastEvent,
                 partitionsArg>>

\* `return <-errC`: the receive meets the worker's send; the deferred cancel
\* ends the subscription's context
Receive ==
  /\ pc = "recv" /\ worker.pc = "sending"
  /\ result' = worker.err
  /\ worker' = IdleWorker
  /\ pc' = "done"
  /\ setupCtx' = Cancel(setupCtx)
  /\ subCtx' = "cancelled"
  /\ UNCHANGED <<streams, log, cmd, session, calls, delivered, out, lastEvent,
                 partitionsArg>>

\* timeoutDuration elapses: the deadline of the handler's timeout context
\* passes while the handler is still running
SetupTimeout ==
  /\ setupCtx = "active"
  /\ pc \in {"ensure", "rpc", "recv"}
  /\ setupCtx' = "expired"
  /\ UNCHANGED <<streams, log, cmd, pc, session, calls, result, subCtx,
                 worker, delivered, out, lastEvent,
                 partitionsArg>>

\* the process ends (the handler returned to Run, or a panic unwound it);
\* the operating system reclaims what the process still held
Exit ==
  /\ pc \in {"done", "panic"}
  /\ pc' = "idle"
  /\ cmd' = NoCmd
  /\ session' = "none"
  /\ calls' = << >>
  /\ result' = nil
  /\ setupCtx' = "none"
  /\ subCtx' = "none"
  /\ worker' = IdleWorker
  /\ delivered' = 0
  /\ out' = << >>
  /\ lastEvent' = NoEvent
  /\ partitionsArg' = << >>
  /\ UNCHANGED <<streams, log>>

Next ==
  \/ Run
  \/ Connect
  \/ Ensure
  \/ create
  \/ publish
  \/ setReadonly
  \/ pause
  \/ delete
  \/ metadata
  \/ partitionMetadata
  \/ setCursor
  \/ fetchCursor
  \/ Subscribe
  \/ CallbackMessage
  \/ CallbackError
  \/ Receive
  \/ SetupTimeout
  \/ Exit

Spec == Init /\ [][Next]_vars

\* the scheduler runs a goroutine that can take a step: the thread blocked
\* in `<-errC` receives once a send is pending
FairSpec == Spec /\ WF_vars(Receive)

\* =================================================================== claims
Called(op) == op \in Ops(calls)

\* what the broker answered to this invocation's call of op
AnswerOf(op) ==
  LET i == CHOOSE i \in 1..Len(calls) : calls[i].op = op IN calls[i].err

IndexOf(op) == CHOOSE i \in 1..Len(calls) : calls[i].op = op

ConnectOk == Called("Connect") /\ AnswerOf("Connect") = nil

\* the call of CreateStream made by the ensure step, when there is one
EnsureCalled == cmd.name # "create" /\ Called("CreateStream")

EnsureAnswerOk == AnswerOf("CreateStream") \in {nil, ErrStreamExists}

\* the broker operation that is a command's own
OwnOp(name) ==
  CASE name = "create" -> "CreateStream"
    [] name \in SubscriptionCommands -> "Subscribe"
    [] name = "publish" -> "Publish"
    [] name = "set-readonly" -> "SetStreamReadonly"
    [] name = "pause" -> "PauseStream"
    [] name = "delete" -> "DeleteStream"
    [] name = "metadata" -> "FetchMetadata"
    [] name = "partition-metadata" -> "FetchPartitionMetadata"
    [] name = "set-cursor" -> "SetCursor"
    [] name = "fetch-cursor" -> "FetchCursor"
    [] OTHER -> "none"

ValidAckPolicyTokens == {"leader", "all", "none"}

\* C1: create is idempotent: a create whose CreateStream call succeeded, or
\* was answered 'stream already exists' because the stream was created by an
\* earlier create, returns success to the caller.
C1_CreateIdempotent ==
  (pc = "done" /\ cmd.name = "create" /\ Called("CreateStream")
     /\ AnswerOf("CreateStream") \in {nil, ErrStreamExists})
    => result = nil

\* C2: the ensure step returns success when CreateStream succeeds or answers
\* 'stream already exists' and a stream-creation failure wrapping the cause
\* for every other answer; so whenever the broker answers from its stream
\* set (the stream is there after a first successful call, or was deleted
\* since) the step succeeds and the stream exists afterwards.
C2_EnsureAbsorbsOnlyStreamExists ==
  [][ (pc = "ensure" /\ pc' # "ensure") =>
        LET name == StreamOf(cmd)
            e == calls'[Len(calls')].err
        IN /\ e \in {nil, ErrStreamExists} => pc' = "rpc" /\ result' = nil
           /\ e \notin {nil, ErrStreamExists} =>
                /\ pc' = "done"
                /\ result' = <<"stream creation failed for stream", name>> \o e
           /\ e = (IF name \in streams THEN ErrStreamExists ELSE nil) =>
                pc' = "rpc" /\ name \in streams' ]_vars

\* a second ensure for a stream that exists was answered 'already exists'
\* and the handler went on to its own operation
C2_Witness ==
  /\ EnsureCalled /\ AnswerOf("CreateStream") = ErrStreamExists
  /\ pc = "rpc" /\ cmd.stream \in streams

\* C3: with an ack-policy token other than leader, all, none, publish
\* returns a failure and Publish is not invoked; the failure is the
\* invalid-ack-policy one whenever the handler got as far as the resolver;
\* with a valid token the resolver succeeds and Publish is invoked with the
\* option of that token.
C3_InvalidAckPolicyNoPublish ==
  (pc = "done" /\ cmd.name = "publish") =>
    LET reached == ConnectOk /\ (EnsureCalled => EnsureAnswerOk) IN
    /\ cmd.ackPolicy \notin ValidAckPolicyTokens =>
         /\ ~Called("Publish")
         /\ result # nil
         /\ reached =>
              result = <<"publication failed", "invalid ack policy",
                         cmd.ackPolicy>>
    /\ (cmd.ackPolicy \in ValidAckPolicyTokens /\ reached) =>
         /\ Called("Publish")
         /\ calls[IndexOf("Publish")].subject =
              (CASE cmd.ackPolicy = "leader" -> "AckPolicyLeader"
                 [] cmd.ackPolicy = "all" -> "AckPolicyAll"
                 [] cmd.ackPolicy = "none" -> "AckPolicyNone")

\* publish reached the resolver with an invalid token and returned
C3_Witness ==
  /\ pc = "done" /\ cmd.name = "publish" /\ cmd.ackPolicy = "Leader"
  /\ ConnectOk /\ EnsureCalled /\ EnsureAnswerOk
  /\ result = <<"publication failed", "invalid ack policy", "Leader">>

\* C4: a handler returns a failure whenever a broker operation it performed
\* returned an error, except 'stream already exists' from the CreateStream
\* call of the ensure step.
C4_ErrorsPropagate ==
  pc = "done" =>
    \A i \in 1..Len(calls) :
      (/\ calls[i].err # nil
       /\ ~(/\ calls[i].op = "CreateStream" /\ cmd.name # "create"
            /\ calls[i].err = ErrStreamExists))
        => result # nil

\* C5: no handler returns while the session it opened is still open.
C5_SessionReleased == pc = "done" => session # "open"

\* C6: in a subscription session whose connect or ensure step failed,
\* subscribeToStream has returned that failure, Subscribe was not invoked,
\* no subscription context exists and the message handler was never called.
C6_SetupFailureTerminates ==
  (cmd.name \in SubscriptionCommands /\ Called("Connect")) =>
    LET connectFailed == AnswerOf("Connect") # nil
        ensureFailed == EnsureCalled /\ ~EnsureAnswerOk
    IN /\ (connectFailed \/ ensureFailed) =>
            /\ pc = "done"
            /\ ~Called("Subscribe")
            /\ subCtx = "none"
            /\ delivered = 0 /\ out = << >> /\ lastEvent = NoEvent
       /\ connectFailed =>
            result = <<"stream subscription failed",
                       "connection failed with address">>
                       \o AnswerOf("Connect")
       /\ ensureFailed =>
            result = <<"stream creation failed for stream", cmd.stream>>
                       \o AnswerOf("CreateStream")

\* subscribe --create-stream whose ensure step failed has returned
C6_Witness ==
  /\ cmd.name = "subscribe" /\ pc = "done"
  /\ EnsureCalled /\ AnswerOf("CreateStream") = ErrOther

\* C7: while the session is streaming, a callback invoked with a delivery
\* error does not call the message handler and leaves the error pending on
\* errC; subscribeToStream then returns exactly that error.
C7_DeliveryErrorTerminates ==
  /\ [][ (pc = "recv" /\ worker.pc = "idle" /\ worker'.pc = "sending") =>
           /\ out' = out
           /\ ~lastEvent'.handlerCalled
           /\ worker'.err = lastEvent'.err
           /\ pc' = "recv" ]_vars
  /\ \A e \in DeliveryErrors :
       (pc = "recv" /\ worker.pc = "sending" /\ worker.err = e)
         ~> (pc = "done" /\ result = e /\ subCtx = "cancelled")

\* subscribeToStream returned the delivery error the callback was given
C7_Witness ==
  /\ pc = "done" /\ cmd.name = "subscribe" /\ lastEvent.kind = "err"
  /\ delivered = 2 /\ result = <<"ErrReadonlyPartition">> /\ Len(out) = 1

\* C8: in subscribe-activity-stream, after a message whose payload failed
\* to decode the handler has printed the invalid-message line and returned:
\* nothing is pending on errC, the session is still streaming, and the next
\* message delivered is handed to the handler.
C8_DecodeErrorNotFatal ==
  /\ (lastEvent.decodeFailed /\ pc # "done") =>
       /\ cmd.name = "subscribe-activity-stream"
       /\ pc = "recv" /\ subCtx = "active" /\ worker = IdleWorker
       /\ out[Len(out)] = InvalidLine(Len(out) - 1)
       /\ delivered < MaxDeliver => ENABLED CallbackMessage
  /\ (\E i \in 1..Len(out) : out[i].kind = "invalid") =>
       /\ pc \in {"recv", "panic", "done"}
       /\ pc = "done" => result \in DeliveryErrors
       /\ lastEvent.kind = "msg" => lastEvent.handlerCalled

\* a well-formed activity event was handled after an invalid message
C8_Witness ==
  /\ cmd.name = "subscribe-activity-stream" /\ pc = "recv"
  /\ Len(out) = 2 /\ out[1].kind = "invalid" /\ out[2].kind = "activity"

InSeq(x, sq) == \E i \in 1..Len(sq) : sq[i] = x

\* the sub-message render reads for a discriminant
SubOpOf(se) ==
  CASE se.Op = "CREATE_STREAM" -> se.CreateStreamOp
    [] se.Op = "DELETE_STREAM" -> se.DeleteStreamOp
    [] se.Op = "PAUSE_STREAM" -> se.PauseStreamOp
    [] se.Op = "RESUME_STREAM" -> se.ResumeStreamOp
    [] OTHER -> NilOp

KnownOps == {"CREATE_STREAM", "DELETE_STREAM", "PAUSE_STREAM", "RESUME_STREAM"}

\* what C9 asks of the rendering of one decoded event
RenderedAsClaimed(se) ==
  LET r == render(se)
      op == SubOpOf(se)
  IN /\ ~r.panic
     /\ se.Op \in KnownOps => InSeq(op.Stream, r.str)
     /\ se.Op \in {"CREATE_STREAM", "PAUSE_STREAM", "RESUME_STREAM"} =>
          InSeq(FmtInts(op.Partitions), r.str)
     /\ se.Op = "PAUSE_STREAM" => InSeq(FmtBool(op.ResumeAll), r.str)
     /\ se.Op \notin KnownOps => r.str = <<"unknown activity">>

\* C9: rendering a successfully decoded activity event never fails: every
\* event the handler has decoded was rendered, with the stream name (and
\* the partitions, and the resume-all flag, where the kind has them) in the
\* summary of a known kind, and exactly `unknown activity` for another kind.
C9_RenderNeverFails ==
  (/\ cmd.name = "subscribe-activity-stream" /\ lastEvent.kind = "msg"
   /\ Unmarshal(lastEvent.value).err = nil)
    => /\ pc # "panic"
       /\ RenderedAsClaimed(Unmarshal(lastEvent.value).se)
       /\ out[Len(out)].text = render(Unmarshal(lastEvent.value).se).str

\* C10: CreateStream is invoked only by create or by a command run with
\* --create-stream; the ensure step then comes before the command's own
\* operation, and after a failed ensure step that operation is not invoked;
\* metadata, fetch-cursor and subscribe-activity-stream never invoke it.
C10_CreateOnlyWhenRequested ==
  /\ Called("CreateStream") =>
       \/ cmd.name = "create"
       \/ cmd.name \in CreateStreamFlagCommands /\ cmd.createStream
  /\ cmd.name \in {"metadata", "fetch-cursor", "subscribe-activity-stream"}
       => ~Called("CreateStream")
  /\ (cmd.name \in CreateStreamFlagCommands /\ Called(OwnOp(cmd.name))) =>
       /\ cmd.createStream =>
            /\ Called("CreateStream")
            /\ IndexOf("CreateStream") < IndexOf(OwnOp(cmd.name))
            /\ EnsureAnswerOk
       /\ ~cmd.createStream => ~Called("CreateStream")
  /\ (EnsureCalled /\ ~EnsureAnswerOk) =>
       /\ ~Called(OwnOp(cmd.name))
       /\ pc = "done" /\ result # nil

\* publish --create-stream created the stream and then published
C10_Witness ==
  /\ cmd.name = "publish" /\ cmd.createStream /\ pc = "done"
  /\ Len(calls) = 3 /\ calls[2].op = "CreateStream" /\ calls[2].err = nil
  /\ calls[3].op = "Publish" /\ calls[3].err = nil

SubscribeOk == Called("Subscribe") /\ AnswerOf("Subscribe") = nil

\* C11: subscribe asks for replay from the earliest received message: what
\* the handler has printed is the stream's log from offset 0 on, in order
\* and with each message's offset (one earlier publish of `bar` is printed
\* with offset 0); while messages remain the next delivery is possible, and
\* the session goes on blocking in the receive unless an error is delivered.
C11_ReplayFromEarliest ==
  (cmd.name = "subscribe" /\ SubscribeOk) =>
    /\ calls[IndexOf("Subscribe")].subject = "StartAtEarliestReceived"
    /\ Len(out) <= Len(log[cmd.stream])
    /\ \A i \in 1..Len(out) :
         /\ out[i].kind = "message"
         /\ out[i].text = log[cmd.stream][i]
         /\ out[i].offset = i - 1
    /\ (/\ pc = "recv" /\ worker.pc = "idle" /\ delivered < MaxDeliver
        /\ Len(out) < Len(log[cmd.stream])) => ENABLED CallbackMessage
    /\ pc \in {"recv", "done"}
    /\ pc = "done" => result \in DeliveryErrors

\* the one message published earlier was printed with offset 0 and the
\* session is still blocked in the receive
C11_Witness ==
  /\ cmd.name = "subscribe" /\ pc = "recv"
  /\ log[cmd.stream] = << <<"bar">> >>
  /\ Len(out) = 1 /\ out[1].text = <<"bar">> /\ out[1].offset = 0

\* C12: the setup deadline does not reach the streaming phase: while the
\* handler is blocked in the receive the subscription's context is active
\* whatever the state of the timeout context; with the deadline passed,
\* messages are still delivered, the only errors put on errC are the ones
\* the subscription delivered, and the session ends only with such an
\* error; Subscribe itself is never failed by the passed deadline.
C12_SetupDeadlineIndependent ==
  /\ pc = "recv" => subCtx = "active" /\ SubCtxErr = nil
  /\ (pc = "recv" /\ setupCtx = "expired") =>
       /\ worker.pc = "sending" => worker.err \in DeliveryErrors
       /\ (/\ worker.pc = "idle" /\ delivered < MaxDeliver
           /\ NextMessages # {}) => ENABLED CallbackMessage
  /\ (Called("Subscribe") /\ cmd.name \in SubscriptionCommands) =>
       /\ AnswerOf("Subscribe") # ErrDeadline
       /\ (pc = "done" /\ AnswerOf("Subscribe") = nil) =>
            result \in DeliveryErrors
  /\ (pc = "rpc" /\ cmd.name \in SubscriptionCommands
        /\ setupCtx = "expired" /\ StreamOf(cmd) = activityStreamName)
       => ENABLED (Subscribe /\ pc' = "recv")

\* the deadline passed during streaming and a message was handled
C12_Witness ==
  /\ pc = "recv" /\ setupCtx = "expired" /\ subCtx = "active"
  /\ cmd.name = "subscribe" /\ Len(out) = 2

\* C13: the whole setup phase of a subscription session runs under the
\* timeout context: the context is live when the connect is made and when
\* the ensure step is made, and an ensure step made after the deadline
\* passed ends the session with a failure.
C13_SetupBoundedByTimeout ==
  [][ cmd.name \in SubscriptionCommands =>
        /\ (pc = "connect" /\ pc' # "connect") =>
             setupCtx \in {"active", "expired"}
        /\ (pc = "ensure" /\ pc' # "ensure") =>
             /\ setupCtx \in {"active", "expired"}
             /\ setupCtx = "expired" => pc' = "done" /\ result' # nil ]_vars

\* the platform integer with the numeric value of an int32
FromInt32(r) ==
  Int64(IF r < 0 THEN -1 ELSE 0, (r \div 65536) % 65536, r % 65536)

InInt32Range(v) ==
  \/ v.hi = 0 /\ v.mid < 32768
  \/ v.hi = -1 /\ v.mid >= 32768

\* set-readonly or pause has made its call with the converted partitions
PartitionsConverted ==
  pc = "done" /\ cmd.name \in PartitionsFlagCommands
    /\ Called(OwnOp(cmd.name))

\* C14 as stated: intToInt32Slice keeps length and order and every output
\* element has the numeric value of the input element at its place, inputs
\* outside the signed 32-bit range included.
C14_IdentityOnValues ==
  PartitionsConverted =>
    /\ Len(partitionsArg) = Len(cmd.partitions)
    /\ \A i \in 1..Len(cmd.partitions) :
         FromInt32(partitionsArg[i]) = cmd.partitions[i]

\* C14 amended: intToInt32Slice keeps length and order; every output element
\* agrees with the input element at its place in the low 32 bits, so it has
\* the same numeric value when the input is within the signed 32-bit range
\* and is the input reduced modulo 2^32 otherwise; the empty list maps to
\* the empty list.
C14_IdentityWithinInt32 ==
  PartitionsConverted =>
    /\ Len(partitionsArg) = Len(cmd.partitions)
    /\ \A i \in 1..Len(cmd.partitions) :
         LET r == FromInt32(partitionsArg[i]) IN
         /\ r.mid = cmd.partitions[i].mid /\ r.low = cmd.partitions[i].low
         /\ InInt32Range(cmd.partitions[i]) <=> r = cmd.partitions[i]
    /\ cmd.partitions = << >> => partitionsArg = << >>

\* --partitions 2147483648 --partitions -1 was converted
C14_Witness ==
  /\ PartitionsConverted
  /\ cmd.partitions = <<Int64(0, 32768, 0), Int64(-1, 65535, 65535)>>
  /\ partitionsArg[2] = -1 /\ partitionsArg[1] < 0

\* the labels a command's own failures carry
CommandPrefixes(name) ==
  CASE name = "create" ->
         {"creation failed", "stream creation failed for stream"}
    [] name \in SubscriptionCommands ->
         {"stream subscription failed", "stream subscription failed for stream"}
    [] OTHER -> {ConnectPrefix(name)[1]}

\* the operation whose error the handler returned
FailedOp ==
  LET i == CHOOSE i \in 1..Len(calls) :
             calls[i].err # nil /\ \A j \in i + 1..Len(calls) : calls[j].err = nil
  IN calls[i].op

\* C15: an error a handler returns is labelled with the prefix of the
\* command that was invoked and with the kind of the operation that failed:
\* the stream-creation label only for a failed CreateStream, the metadata
\* label only for `metadata`, never the label of another operation.
C15_ErrorsClassified ==
  (pc = "done" /\ result # nil) =>
    /\ result[1] \in CommandPrefixes(cmd.name)
    /\ InSeq("stream creation failed for stream", result) =>
         FailedOp = "CreateStream"
    /\ InSeq("metadata fetching failed", result) => cmd.name = "metadata"

\* C16: once Subscribe has returned without error, subscribeToStream is
\* blocked in the receive with the subscription's context active, and it
\* leaves the receive only by taking a pending error off errC: it returns
\* that error, never nil, and with no send pending it does not return.
C16_ReturnsOnlyByErrC ==
  /\ [](SubscribeOk =>
          /\ pc \in {"recv", "panic", "done"}
          /\ pc = "recv" => subCtx = "active"
          /\ pc = "done" => result # nil /\ result \in DeliveryErrors
                              /\ subCtx = "cancelled")
  /\ [][ (pc = "recv" /\ pc' = "done") =>
           /\ worker.pc = "sending" /\ worker.err # nil
           /\ result' = worker.err ]_vars
  /\ [][ (pc = "recv" /\ subCtx' # subCtx) => pc' = "done" ]_vars

\* the activity session returned the error taken off errC
C16_Witness ==
  /\ cmd.name = "subscribe-activity-stream" /\ pc = "done" /\ SubscribeOk
  /\ result = ErrOther /\ subCtx = "cancelled"

\* C17: a publish that fails with the invalid-ack-policy error has changed
\* nothing at the broker: during the invocation no CreateStream call made
\* a stream and no Publish call was made.
C17_InvalidAckPolicyNoEffect ==
  (pc = "done" /\ cmd.name = "publish" /\ InSeq("invalid ack policy", result)) =>
    /\ ~Called("Publish")
    /\ ~(Called("CreateStream") /\ AnswerOf("CreateStream") = nil)

\* C18: no callback stays blocked on errC: once subscribeToStream has
\* returned, no delivery worker is waiting in `errC <- err`.
C18_NoWorkerStuck == pc = "done" => worker.pc = "idle"

====
